---- MODULE Spec2Model ----
(***************************************************************************)
(* Terminal multi-line link detection                                      *)
(* (terminalContrib/links/browser/terminalMultiLineLinkDetector.ts).       *)
(*                                                                         *)
(* Strings are run-length encoded: a string is a sequence of runs          *)
(* [ch |-> c, n |-> k] standing for k >= 1 copies of the character c, so   *)
(* that texts around the 2000 and 1024 character limits of the detector    *)
(* are ordinary values.  The empty string is <<>>.  An optional value is a *)
(* sequence of length 0 (undefined / null) or 1.                           *)
(***************************************************************************)
EXTENDS Integers, Sequences, FiniteSets, TLC

\* ------------------------------------------------------------ bounds ----
\* number of rows of the terminal buffer (rows 0 .. MaxRows - 1)
MaxRows == 4
\* a wrapped line handed to detect spans rows startLine .. startLine + k, k <= MaxWrap
MaxWrap == 1
\* number of host events (resize, workspace change) in one behaviour
MaxHostSteps == 1
MaxGets == 4
MaxActivations == 2
MaxConfigChanges == 2
MaxLayoutOps == 3
MaxRuns == 2

\* ------------------------------------------------- program constants ----
MaxLineLength == 2000
MaxResolvedLinkLength == 1024

\* ------------------------------------------------------------ strings ---
Run(c, k) == [ch |-> c, n |-> k]

\* the string whose characters are the elements of cs
S(cs) == [i \in DOMAIN cs |-> Run(cs[i], 1)]

None == <<>>
Some(x) == <<x>>

RECURSIVE StrLen(_)
StrLen(s) == IF s = <<>> THEN 0 ELSE s[1].n + StrLen(Tail(s))

\* the character at 1-based position p of s, 1 <= p <= StrLen(s)
RECURSIVE CharAt(_, _)
CharAt(s, p) == IF p <= s[1].n THEN s[1].ch ELSE CharAt(Tail(s), p - s[1].n)

\* s occurs in t at 0-based offset o
OccursAt(t, s, o) == \A p \in 1..StrLen(s) : CharAt(t, o + p) = CharAt(s, p)

\* String.prototype.indexOf: 0-based offset of the first occurrence, or -1
IndexOf(t, s) ==
    LET last == StrLen(t) - StrLen(s)
    IN  IF \E o \in 0..last : OccursAt(t, s, o)
        THEN CHOOSE o \in 0..last :
                 OccursAt(t, s, o) /\ \A o2 \in 0..(o - 1) : ~OccursAt(t, s, o2)
        ELSE -1

\* \s and \d of the regular expressions
IsSpace(c) == c \in {" ", "\t"}
IsDigit(c) == c \in {"0", "1", "2", "3", "4", "5", "6", "7", "8", "9"}

\* first run index k >= i whose character is not a whitespace (Len(t)+1 if none)
SkipSpace(t, i) ==
    CHOOSE k \in i..(Len(t) + 1) :
        /\ (k = Len(t) + 1 \/ ~IsSpace(t[k].ch))
        /\ \A m \in i..(k - 1) : IsSpace(t[m].ch)

\* first run index k >= i whose character is not a digit (Len(t)+1 if none)
SkipDigits(t, i) ==
    CHOOSE k \in i..(Len(t) + 1) :
        /\ (k = Len(t) + 1 \/ ~IsDigit(t[k].ch))
        /\ \A m \in i..(k - 1) : IsDigit(t[m].ch)

DigitValue(c) ==
    CASE c = "0" -> 0 [] c = "1" -> 1 [] c = "2" -> 2 [] c = "3" -> 3
      [] c = "4" -> 4 [] c = "5" -> 5 [] c = "6" -> 6 [] c = "7" -> 7
      [] c = "8" -> 8 [] c = "9" -> 9

\* decimal value of a string of digits, most significant digit first
RECURSIVE DecimalValue(_, _)
DecimalValue(s, acc) ==
    IF s = <<>> THEN acc
    ELSE IF s[1].n = 1 THEN DecimalValue(Tail(s), 10 * acc + DigitValue(s[1].ch))
    ELSE DecimalValue(<<Run(s[1].ch, s[1].n - 1)>> \o Tail(s),
                      10 * acc + DigitValue(s[1].ch))

\* only the first digit read
parseIntFirstDigit(s) == DigitValue(s[1].ch)

\* parseInt applied to a capture of \d+
parseInt(s) == DecimalValue(s, 0)

\* ----------------------------------------------------------- matchers ---
\* the colon not required
LineMatchesAt(t, i) ==
    LET j == SkipSpace(t, i)
        k == SkipDigits(t, j)
    IN  k > j /\ k <= Len(t)

\* /\s*(?<link>(?<line>\d+):(?<col>\d+)?)/ tried at run i of t: optional
\* whitespace, then one or more digits, then a colon
LineColMatchesAt(t, i) ==
    LET j == SkipSpace(t, i)
        k == SkipDigits(t, j)
    IN  k > j /\ k <= Len(t) /\ t[k].ch = ":"

\* String.prototype.match with that expression (no g flag): the groups of
\* the leftmost match, or null.  \s* and \d+ are greedy, and no match starts
\* inside a run whose first character does not start one, so the leftmost
\* match starts at the first run at which the expression matches.
LineColMatch(t) ==
    IF \E i \in 1..Len(t) : LineColMatchesAt(t, i)
    THEN LET i == CHOOSE a \in 1..Len(t) :
                      LineColMatchesAt(t, a) /\ \A b \in 1..(a - 1) : ~LineColMatchesAt(t, b)
             j == SkipSpace(t, i)
             k == SkipDigits(t, j)
             e == IF t[k].n = 1 THEN SkipDigits(t, k + 1) ELSE k + 1
             line == SubSeq(t, j, k - 1)
             col == SubSeq(t, k + 1, e - 1)
         IN  Some([link |-> line \o <<Run(":", 1)>> \o col,
                   line |-> Some(line),
                   col  |-> IF col = <<>> THEN None ELSE Some(col)])
    ELSE None

\* a second matcher added to the list
TwoMatchers == <<"lineCol", "lineCol">>

candidateMatchers == <<"lineCol">>

\* text.match(matcher)?.groups
MatchGroups(text, matcher) == LineColMatch(text)

\* /^\d/: the leading whitespace not allowed
DigitPrefixedNoSpace(t) == Len(t) >= 1 /\ IsDigit(t[1].ch)

\* text.match(/^\s*\d/): optional whitespace then a digit at the start
DigitPrefixed(t) ==
    LET j == SkipSpace(t, 1)
    IN  j <= Len(t) /\ IsDigit(t[j].ch)

\* ------------------------------------------------- external helpers -----
\* content of rows lineStart .. lineEnd of the buffer, concatenated; a row
\* index outside the buffer contributes nothing
RECURSIVE getXtermLineContent(_, _, _, _)
getXtermLineContent(buf, lineStart, lineEnd, width) ==
    IF lineStart > lineEnd THEN <<>>
    ELSE (IF lineStart \in DOMAIN buf THEN buf[lineStart] ELSE <<>>)
         \o getXtermLineContent(buf, lineStart + 1, lineEnd, width)

\* the coordinate mapper, kept as the application to its arguments
convertLinkRangeToBuffer(lines, width, range, startLine) ==
    [lines |-> lines, cols |-> width, range |-> range, startLine |-> startLine]

\* extUri.isEqualOrParent(uri, folder): folder is uri or an ancestor of it;
\* a uri is the sequence of its path segments
isEqualOrParent(uri, folder) ==
    Len(folder) <= Len(uri) /\ SubSeq(uri, 1, Len(folder)) = folder

\* only the first folder tested
InsideFirst(uri, fs, i) == i <= Len(fs) /\ isEqualOrParent(uri, fs[i])

\* _isDirectoryInsideWorkspace: the folders are tried in order
RECURSIVE InsideFrom(_, _, _)
InsideFrom(uri, fs, i) ==
    IF i > Len(fs) THEN FALSE
    ELSE IF isEqualOrParent(uri, fs[i]) THEN TRUE
    ELSE InsideFrom(uri, fs, i + 1)

\* the loop over the folders starting after the first folder
InsideAfterFirst(uri, fs) == InsideFrom(uri, fs, 2)

\* lines 156-164
isDirectoryInsideWorkspace(uri, fs) == InsideFrom(uri, fs, 1)

LocalFile == "LocalFile"
LocalFolderInWorkspace == "LocalFolderInWorkspace"
LocalFolderOutsideWorkspace == "LocalFolderOutsideWorkspace"

\* lines 115-124: the type of a link from the resolver's answer
LinkType(stat, fs) ==
    IF stat.isDirectory
    THEN IF isDirectoryInsideWorkspace(stat.uri, fs)
         THEN LocalFolderInWorkspace
         ELSE LocalFolderOutsideWorkspace
    ELSE LocalFile

\* ------------------------------------------------------ node's path -----
\* a path is the sequence of its characters
\* the segments of a path between the separators, empty ones dropped
RECURSIVE Segments(_, _)
Segments(s, seg) ==
    IF s = <<>> THEN (IF seg = <<>> THEN <<>> ELSE <<seg>>)
    ELSE IF s[1] = "/"
         THEN (IF seg = <<>> THEN <<>> ELSE <<seg>>) \o Segments(Tail(s), <<>>)
         ELSE Segments(Tail(s), Append(seg, s[1]))

\* path.isAbsolute (posix)
isAbsolute(s) == Len(s) > 0 /\ s[1] = "/"

\* "." dropped, ".." takes the segment before it away; above the root ".."
\* is dropped, at the start of a relative path it stays
RECURSIVE ResolveDots(_, _, _)
ResolveDots(segs, acc, abs) ==
    IF segs = <<>> THEN acc
    ELSE IF segs[1] = <<".">> THEN ResolveDots(Tail(segs), acc, abs)
    ELSE IF segs[1] = <<".", ".">>
         THEN IF acc # <<>> /\ acc[Len(acc)] # <<".", ".">>
              THEN ResolveDots(Tail(segs), SubSeq(acc, 1, Len(acc) - 1), abs)
              ELSE IF abs THEN ResolveDots(Tail(segs), acc, abs)
              ELSE ResolveDots(Tail(segs), Append(acc, segs[1]), abs)
    ELSE ResolveDots(Tail(segs), Append(acc, segs[1]), abs)

RECURSIVE Join(_)
Join(segs) ==
    IF segs = <<>> THEN <<>>
    ELSE IF Len(segs) = 1 THEN segs[1]
    ELSE segs[1] \o <<"/">> \o Join(Tail(segs))

\* path.normalize (posix): separators collapsed, dots resolved, a trailing
\* separator kept
normalize(s) ==
    IF s = <<>> THEN <<".">>
    ELSE LET abs == isAbsolute(s)
             trailing == s[Len(s)] = "/"
             body == Join(ResolveDots(Segments(s, <<>>), <<>>, abs))
         IN  IF body = <<>>
             THEN (IF abs THEN <<"/">> ELSE IF trailing THEN <<".", "/">> ELSE <<".">>)
             ELSE (IF abs THEN <<"/">> ELSE <<>>) \o body
                      \o (IF trailing THEN <<"/">> ELSE <<>>)

\* .replace(/[\r\n]+$/, ''): the line ends at the end of the string removed
RECURSIVE StripLineEnds(_)
StripLineEnds(s) ==
    IF s # <<>> /\ s[Len(s)] \in {"\r", "\n"}
    THEN StripLineEnds(SubSeq(s, 1, Len(s) - 1))
    ELSE s

\* String.prototype.startsWith
startsWith(s, e) == Len(e) <= Len(s) /\ SubSeq(s, 1, Len(e)) = e

\* -------------------------------------------------------------- inputs --
\* rows a terminal can show
EmptyRow == <<>>
PathRow == S(<<"/", "p">>)
EslintRow == <<Run(" ", 1)>> \o S(<<"1", "6", ":", "5">>)
RipgrepRow == S(<<"7", ":", "x">>)
CountRow == S(<<"2", " ", ":">>)
LongTextRow == S(<<"7", ":">>) \o <<Run("x", MaxLineLength - 1)>>
LongLinkRow == <<Run("1", MaxResolvedLinkLength), Run(":", 1)>>

Rows == {EmptyRow, PathRow, EslintRow, RipgrepRow, CountRow, LongTextRow, LongLinkRow}

RowIds == 0..(MaxRows - 1)

\* viewport widths (every row fits)
Widths == {2048, 4096}

\* resources the resolver can answer with
Uris == {<<"w">>, <<"w", "s">>, <<"o">>}

\* workspace folder lists the host can have open
FolderLists == {<<>>, << <<"w">> >>, << <<"o">>, <<"w">> >>}

\* failures a resolveLink call can end with
Faults == {"EIO", "ETIMEDOUT"}

\* what one resolveLink call can come back with: null, a stat, or a fault
Stats == [uri : Uris, isDirectory : BOOLEAN]
Outcomes == {[kind |-> "null"]}
            \cup {[kind |-> "throw", fault |-> f] : f \in Faults}
            \cup {[kind |-> "stat", stat |-> st] : st \in Stats}

\* the detect invocations of one behaviour; SoloCalls are those of a
\* behaviour with a single invocation
CallIds == {1, 2}
SoloCalls == {1}

\* --------------------------------------------------------------- state ---
VARIABLES
    buffer,     \* xterm.buffer.active: row index -> content
    cols,       \* xterm.cols
    folders,    \* _workspaceContextService.getWorkspace().folders (their uris)
    calls,      \* the detect invocations: locals and position of each
    hostSteps,  \* host events so far
    cell,       \* a MarkdownCellViewModel
    git,        \* the git extension module and its host
    gulp        \* a run of the server build tasks and the files it leaves

vars == <<buffer, cols, folders, calls, hostSteps, cell, git, gulp>>

\* a detect invocation that has not been made yet
NotCalled ==
    [pc |-> "idle", startLine |-> 0, endLine |-> 0, text |-> <<>>,
     matcher |-> 1, link |-> <<>>, line |-> None, col |-> None,
     index |-> 0, possiblePath |-> None, scanned |-> {},
     stringIndex |-> -1, resolved |-> <<>>, settled |-> None,
     links |-> <<>>, error |-> None,
     atCall |-> [buffer |-> <<>>, cols |-> 0, folders |-> <<>>]]

\* the scan loop awaiting each row: other callbacks run in between
RunningScanYields(c) ==
    \/ calls[c].pc \in {"match", "scanned"}
    \/ calls[c].pc = "await" /\ calls[c].settled # None

\* an invocation is inside a synchronous section, or its continuation is
\* queued as a microtask: JavaScript runs it before any other callback
Running(c) ==
    \/ calls[c].pc \in {"match", "scan", "scanned"}
    \/ calls[c].pc = "await" /\ calls[c].settled # None
NoneRunning == \A c \in CallIds : ~Running(c)

\* notebookOptions.getLayoutConfiguration() and computeStatusBarHeight()
markdownCellTopMargin == 8
markdownCellBottomMargin == 8
bottomToolbarGap == 18
StatusBarHeight == 22

\* notebookOptions.computeCollapsedMarkdownCellHeight()
CollapsedMarkdownCellHeight == 40

\* notebookOptions.computeMarkdownCellEditorWidth(outerWidth)
computeMarkdownCellEditorWidth(outerWidth) == outerWidth - 24

\* notebookOptions.computeBottomToolbarOffset(totalHeight)
computeBottomToolbarOffset(totalHeight) == totalHeight - bottomToolbarGap

\* a MarkdownCellViewModel after its constructor: nothing rendered yet
NewCell ==
    [html |-> None, text |-> <<>>, renders |-> 0, gets |-> 0, returned |-> None,
     editState |-> "Preview",      \* getEditState()
     inputCollapsed |-> FALSE,     \* metadata.inputCollapsed
     editorHeight |-> 0,           \* _editorHeight
     \* lines 117-125: _layoutInfo, no notebook layout given
     layoutInfo |-> [editorHeight |-> 0, fontInfo |-> None, editorWidth |-> 0,
                     bottomToolbarOffset |-> bottomToolbarGap, totalHeight |-> 0],
     fired |-> 0,                  \* onDidChangeLayout events
     state |-> None,               \* the last event fired
     hides |-> 0,                  \* onDidHideInput events
     op |-> "new",                 \* the last operation on the cell
     arg |-> None,                 \* and its argument
     ops |-> 0]

\* ------------------------------------------------------- build tasks -----
\* task.series and task.parallel of ./lib/task, and a task function
Leaf(id) == [kind |-> "leaf", id |-> id]
series(tasks) == [kind |-> "series", tasks |-> tasks]
parallel(tasks) == [kind |-> "parallel", tasks |-> tasks]

\* lines 144-161: the node-<platform>-<arch> tasks, two of the build targets
NodeTasks == {"node-linux-x64", "node-win32-x64"}

\* lines 367-387: optimize-vscode-<type> and minify-vscode-<type>
optimizeTask(at) == series(<<Leaf(at \o <<"rimraf out-vscode">>), Leaf(at \o <<"optimize">>)>>)
minifyTask ==
    series(<<Leaf(<<"patch product">>),
             optimizeTask(<<"minify">>),
             Leaf(<<"rimraf out-vscode-min">>),
             Leaf(<<"minify">>)>>)

\* lines 395-403
copyPkgConfigTask == series(<<Leaf(<<"rimraf out-vscode-pkg">>), Leaf(<<"copy config">>)>>)
copyPkgNativeTask == series(<<Leaf(<<"rimraf pkg folder">>), Leaf(<<"copy native">>)>>)

\* lines 415-432: three tasks for every extension rebuilt, in series
rebuildExtensions == <<"big-data-cluster", "mssql", "notebook">>
RECURSIVE YarnTasks(_)
YarnTasks(scopes) ==
    IF scopes = <<>> THEN <<>>
    ELSE <<Leaf(<<scopes[1], "copy .yarnrc">>),
           Leaf(<<scopes[1], "rimraf node_modules">>),
           Leaf(<<scopes[1], "yarn">>)>> \o YarnTasks(Tail(scopes))
yarnrcExtensions == series(YarnTasks(rebuildExtensions))

\* the packaging started along with the removal of the destination
serverTaskCIPackagesEarly ==
    series(<<Leaf(<<"node-linux-x64">>),
             yarnrcExtensions,
             Leaf(<<"ci", "compile extensions">>),
             Leaf(<<"cleanup extensions">>),
             Leaf(<<"rollup angular">>),
             parallel(<<Leaf(<<"rimraf destination">>), Leaf(<<"package">>)>>)>>)

\* lines 437-445: vscode-<type>-<platform>-<arch>[-min]-ci
serverTaskCI ==
    series(<<Leaf(<<"node-linux-x64">>),
             yarnrcExtensions,
             Leaf(<<"ci", "compile extensions">>),
             Leaf(<<"cleanup extensions">>),
             Leaf(<<"rollup angular">>),
             Leaf(<<"rimraf destination">>),
             Leaf(<<"package">>)>>)

\* lines 448-453: vscode-<type>-<platform>-<arch>[-min]
serverTask(minified) ==
    series(<<Leaf(<<"compile build">>),
             Leaf(<<"compile extensions">>),
             IF minified THEN minifyTask ELSE optimizeTask(<<>>),
             serverTaskCI>>)

\* lines 456-463: vscode-<type>-<platform>-<arch>[-min]-pkg
serverPkgTask(minified) ==
    series(<<parallel(<<serverTask(minified), copyPkgConfigTask, copyPkgNativeTask>>),
             Leaf(<<"pkg">>)>>)

\* the tasks gulp can be asked to run
ServerTasks == {"ci", "server", "server-min", "pkg", "pkg-min"}
TaskNamed(name) ==
    CASE name = "ci" -> serverTaskCI
      [] name = "server" -> serverTask(FALSE)
      [] name = "server-min" -> serverTask(TRUE)
      [] name = "pkg" -> serverPkgTask(FALSE)
      [] name = "pkg-min" -> serverPkgTask(TRUE)
      [] name \in NodeTasks -> Leaf(<<name>>)

\* the task functions of a task
RECURSIVE Leaves(_)
RECURSIVE LeavesOf(_)
LeavesOf(tasks) == IF tasks = <<>> THEN {} ELSE Leaves(tasks[1]) \cup LeavesOf(Tail(tasks))
Leaves(t) == IF t.kind = "leaf" THEN {t.id} ELSE LeavesOf(t.tasks)

AllLeaves == Leaves(serverPkgTask(FALSE)) \cup Leaves(serverPkgTask(TRUE))
                 \cup {<<name>> : name \in NodeTasks}

\* gulp before a task is run, the node runtimes not fetched
NewGulp ==
    [root |-> "none",
     st |-> [id \in AllLeaves |-> "pending"],      \* pending, running, done, failed
     nodePath |-> [name \in NodeTasks |-> "missing"],  \* missing, written, broken
     fetches |-> [name \in NodeTasks |-> 0],       \* calls of nodejs(platform, arch)
     lost |-> [name \in NodeTasks |-> 0],          \* fetches that left no directory
     runs |-> [name \in NodeTasks |-> 0]]          \* runs of the task

\* the activations of the git extension
ActIds == 1..MaxActivations

\* the extension host before the extension is activated
NewGit ==
    [enabled |-> TRUE,
     isTrusted |-> TRUE,
     pathValue |-> [kind |-> "undefined"],
     workspaceFolders |-> <<>>,
     \* an activation that has not been made yet
     acts |-> [a \in ActIds |->
            [pc |-> "idle",             \* _activate: idle, creating, returned, thrown
             apc |-> "idle",            \* activate: idle, awaiting, done, rejected
             enabledAtCall |-> FALSE,   \* git.enabled read at line 688
             listening |-> FALSE,       \* eventToPromise(onEnabled) is pending
             result |-> None,           \* the GitExtensionImpl _activate resolved to
             create |-> "none",         \* createModel: none, findGit, ipc, resolved, failed
             creates |-> 0,             \* calls of createModel
             createdBy |-> "none",      \* what called createModel: activate or change
             pathHints |-> <<>>,        \* first argument of findGit
             excludes |-> <<>>,         \* captured by the validator
             skipped |-> {},            \* gits the validator rejected
             info |-> None,             \* the git findGit resolved to
             ipcServer |-> FALSE,
             failure |-> None,          \* the message createModel rejected with
             error |-> None,            \* what _activate and activate rejected with
             telemetry |-> <<>>,        \* events sent through telemetryReporter
             apiCommands |-> 0]],       \* registerAPICommands calls
     deactivateTasks |-> <<>>,
     deact |-> [pc |-> "idle", index |-> 0, started |-> <<>>, settled |-> <<>>],
     missing |-> FALSE,         \* context key git.missing
     changes |-> 0,             \* configuration changes so far
     changed |-> "none"]        \* the section the last change affected

Init ==
    /\ buffer \in [RowIds -> Rows]
    /\ cols = 2048
    /\ folders = << <<"w">> >>
    /\ calls = [c \in CallIds |-> NotCalled]
    /\ hostSteps = 0
    /\ cell = NewCell
    /\ git = NewGit
    /\ gulp = NewGulp

\* ------------------------------------------------------------- detect ----
\* the length limit forgotten
RejectTextEmptyOnly(text) == text = <<>>

\* line 67: the text is empty or too long to look at
RejectText(text) == text = <<>> \/ StrLen(text) > MaxLineLength

\* the list of links kept in a field of the detector: a call starts with
\* what an earlier call left in it
LeftoverLinks(c) ==
    LET earlier == {d \in CallIds \ {c} : calls[d].pc = "done" /\ calls[d].links # <<>>}
    IN  IF earlier = {} THEN <<>> ELSE calls[CHOOSE d \in earlier : TRUE].links

\* line 63: the list of links of the call, a new empty array
FreshLinks(c) == <<>>

\* lines 62-73: flatten the wrapped line, give up on empty or long text;
\* atCall keeps the buffer, width and folders of the moment of the call
Detect(c, startLine, endLine) ==
    /\ NoneRunning
    /\ calls[c].pc = "idle"
    /\ LET text == getXtermLineContent(buffer, startLine, endLine, cols)
           here == [buffer |-> buffer, cols |-> cols, folders |-> folders]
       IN  calls' = [calls EXCEPT ![c] =
               IF RejectText(text)
               THEN [@ EXCEPT !.pc = "done", !.startLine = startLine,
                              !.endLine = endLine, !.text = text,
                              !.links = FreshLinks(c), !.atCall = here]
               ELSE [@ EXCEPT !.pc = "match", !.startLine = startLine,
                              !.endLine = endLine, !.text = text,
                              !.links = FreshLinks(c), !.atCall = here,
                              !.matcher = 1, !.stringIndex = -1]]
    /\ UNCHANGED <<buffer, cols, folders, hostSteps, cell, git, gulp>>

\* the link compared against the limit of the line
LinkTooLongLineLimit(link) == StrLen(link) > MaxLineLength

\* line 91: the link is too long to resolve
LinkTooLong(link) == StrLen(link) > MaxResolvedLinkLength

\* the scan starting at the row of the fragment itself
ScanStartAtRow(startLine) == startLine

\* line 100: the row the scan starts at
ScanStart(startLine) == startLine - 1

\* lines 77-96 and 153: the head of one iteration of the matcher loop, or
\* the return after the last matcher
TryMatcher(c) ==
    /\ calls[c].pc = "match"
    /\ LET cl == calls[c]
       IN  calls' = [calls EXCEPT ![c] =
               IF cl.matcher > Len(candidateMatchers)
               THEN [cl EXCEPT !.pc = "done"]
               ELSE LET group == MatchGroups(cl.text, candidateMatchers[cl.matcher])
                    IN  IF group = None
                        THEN [cl EXCEPT !.matcher = @ + 1]
                        ELSE IF group[1].link = <<>> \/ group[1].line = None
                        THEN [cl EXCEPT !.matcher = @ + 1]
                        ELSE IF LinkTooLong(group[1].link)
                        THEN [cl EXCEPT !.matcher = @ + 1]
                        ELSE [cl EXCEPT !.pc = "scan",
                                        !.link = group[1].link,
                                        !.line = group[1].line,
                                        !.col = group[1].col,
                                        !.possiblePath = None,
                                        !.index = ScanStart(cl.startLine)]]
    /\ UNCHANGED <<buffer, cols, folders, hostSteps, cell, git, gulp>>

\* the loop condition off by one
ScanContinuesToZero(index) == index >= 0

\* line 100: the loop condition
ScanContinues(index) == index > 0

\* the scan walking down the buffer instead of up
ScanBodyDownward(cl, text) ==
    IF ~DigitPrefixed(text)
    THEN [cl EXCEPT !.scanned = @ \cup {cl.index},
                    !.possiblePath = Some(text),
                    !.pc = "scanned"]
    ELSE [cl EXCEPT !.scanned = @ \cup {cl.index},
                    !.index = @ + 1]

\* lines 102-106: the body of the scan loop on the content of row cl.index,
\* and the decrement
ScanBody(cl, text) ==
    IF ~DigitPrefixed(text)
    THEN [cl EXCEPT !.scanned = @ \cup {cl.index},
                    !.possiblePath = Some(text),
                    !.pc = "scanned"]
    ELSE [cl EXCEPT !.scanned = @ \cup {cl.index},
                    !.index = @ - 1]

\* lines 100-107: one test of the loop condition and, if it holds, one
\* iteration of the scan upwards
ScanUp(c) ==
    /\ calls[c].pc = "scan"
    /\ LET cl == calls[c]
       IN  calls' = [calls EXCEPT ![c] =
               IF ScanContinues(cl.index)
               THEN ScanBody(cl, getXtermLineContent(buffer, cl.index, cl.index, cols))
               ELSE [cl EXCEPT !.pc = "scanned"]]
    /\ UNCHANGED <<buffer, cols, folders, hostSteps, cell, git, gulp>>

\* only undefined taken as falsy
FalsyUndefinedOnly(opt) == opt = None

\* a string or undefined is falsy
Falsy(opt) == opt = None \/ opt[1] = <<>>

\* lines 108-113: no candidate, or the call of the resolver
ResolveCandidate(c) ==
    /\ calls[c].pc = "scanned"
    /\ LET cl == calls[c]
       IN  calls' = [calls EXCEPT ![c] =
               IF Falsy(cl.possiblePath)
               THEN [cl EXCEPT !.matcher = @ + 1, !.pc = "match"]
               ELSE [cl EXCEPT !.resolved = Append(@, cl.possiblePath[1]),
                               !.settled = None,
                               !.pc = "await"]]
    /\ UNCHANGED <<buffer, cols, folders, hostSteps, cell, git, gulp>>

\* the resolver's promise settles
ResolverSettles(c, outcome) ==
    /\ NoneRunning
    /\ calls[c].pc = "await"
    /\ calls[c].settled = None
    /\ calls' = [calls EXCEPT ![c].settled = Some(outcome)]
    /\ UNCHANGED <<buffer, cols, folders, hostSteps, cell, git, gulp>>

\* lines 126-146: the link for a resolved target
SimpleLink(cl, stat, stringIndex, width, fs) ==
    [text |-> cl.link,
     uri |-> stat.uri,
     selection |-> [startLineNumber |-> parseInt(cl.line[1]),
                    startColumn |-> IF Falsy(cl.col) THEN 0 ELSE parseInt(cl.col[1])],
     bufferRange |-> convertLinkRangeToBuffer(
                         <<cl.startLine, cl.endLine>>, width,
                         [startColumn |-> stringIndex + 1,
                          startLineNumber |-> 1,
                          endColumn |-> stringIndex + 1 + StrLen(cl.text) + 1,
                          endLineNumber |-> 1],
                         cl.startLine),
     type |-> LinkType(stat, fs)]

\* the fault swallowed: detect goes on as if nothing was resolved
OnFaultSwallowed(cl, fault) == [cl EXCEPT !.matcher = @ + 1, !.pc = "match"]

\* line 113: the awaited promise was rejected; detect has no handler
OnFault(cl, fault) == [cl EXCEPT !.pc = "rejected", !.error = Some(fault)]

\* the resolution tried again for the same candidate
OnNullRetry(cl) == [cl EXCEPT !.pc = "scanned"]

\* lines 114 and 150-151: linkStat is null, the loop goes on to the next matcher
OnNull(cl) == [cl EXCEPT !.matcher = @ + 1, !.pc = "match"]

\* the break forgotten: the loop goes on after the push
PushNoBreak(cl, simpleLink, stringIndex) ==
    [cl EXCEPT !.stringIndex = stringIndex,
               !.links = Append(@, simpleLink),
               !.matcher = @ + 1,
               !.pc = "match"]

\* lines 146-149 and 153: push the link, leave the loop, return the links
PushAndBreak(cl, simpleLink, stringIndex) ==
    [cl EXCEPT !.stringIndex = stringIndex,
               !.links = Append(@, simpleLink),
               !.pc = "done"]

\* lines 114-149: linkStat is a stat
OnStat(cl, stat, width, fs) ==
    LET stringIndex == IndexOf(cl.text, cl.link)
    IN  PushAndBreak(cl, SimpleLink(cl, stat, stringIndex, width, fs), stringIndex)

\* lines 113-151: detect resumes with the outcome of the resolver
Resume(c) ==
    /\ calls[c].pc = "await"
    /\ calls[c].settled # None
    /\ LET cl == calls[c]
           outcome == cl.settled[1]
       IN  calls' = [calls EXCEPT ![c] =
               CASE outcome.kind = "throw" -> OnFault(cl, outcome.fault)
                 [] outcome.kind = "null" -> OnNull(cl)
                 [] outcome.kind = "stat" -> OnStat(cl, outcome.stat, cols, folders)]
    /\ UNCHANGED <<buffer, cols, folders, hostSteps, cell, git, gulp>>

\* --------------------------------------------------------------- host ----
Awaiting == \E c \in CallIds : calls[c].pc = "await"

\* the terminal is resized while a detection waits for the resolver
Resize(width) ==
    /\ NoneRunning /\ Awaiting
    /\ hostSteps < MaxHostSteps
    /\ width # cols
    /\ cols' = width
    /\ hostSteps' = hostSteps + 1
    /\ UNCHANGED <<buffer, folders, calls, cell, git, gulp>>

\* the workspace folders change while a detection waits for the resolver
SetWorkspaceFolders(fs) ==
    /\ NoneRunning /\ Awaiting
    /\ hostSteps < MaxHostSteps
    /\ fs # folders
    /\ folders' = fs
    /\ hostSteps' = hostSteps + 1
    /\ UNCHANGED <<buffer, cols, calls, cell, git, gulp>>

Next ==
    \/ \E c \in SoloCalls, startLine \in RowIds, k \in 0..MaxWrap :
           startLine + k \in RowIds /\ Detect(c, startLine, startLine + k)
    \/ \E c \in SoloCalls : TryMatcher(c)
    \/ \E c \in SoloCalls : ScanUp(c)
    \/ \E c \in SoloCalls : ResolveCandidate(c)
    \/ \E c \in SoloCalls, outcome \in Outcomes : ResolverSettles(c, outcome)
    \/ \E c \in SoloCalls : Resume(c)
    \/ \E width \in Widths : Resize(width)
    \/ \E fs \in FolderLists : SetWorkspaceFolders(fs)

Spec == Init /\ [][Next]_vars

\* ------------------------------------------- two invocations at once ----
\* rows and resolver answers of the behaviours with two invocations
ConcRows == {PathRow, EslintRow}
ConcOutcomes ==
    {[kind |-> "null"], [kind |-> "throw", fault |-> "EIO"],
     [kind |-> "stat", stat |-> [uri |-> <<"w", "s">>, isDirectory |-> FALSE]],
     [kind |-> "stat", stat |-> [uri |-> <<"w">>, isDirectory |-> TRUE]]}

ConcInit ==
    /\ buffer \in [RowIds -> ConcRows]
    /\ cols = 2048
    /\ folders = << <<"w">> >>
    /\ calls = [c \in CallIds |-> NotCalled]
    /\ hostSteps = 0
    /\ cell = NewCell
    /\ git = NewGit
    /\ gulp = NewGulp

\* the terminal writes a row while a detection waits for the resolver
WriteRow(i, row) ==
    /\ NoneRunning /\ Awaiting
    /\ hostSteps < MaxHostSteps
    /\ row # buffer[i]
    /\ buffer' = [buffer EXCEPT ![i] = row]
    /\ hostSteps' = hostSteps + 1
    /\ UNCHANGED <<cols, folders, calls, cell, git, gulp>>

ConcNext ==
    \/ \E c \in CallIds, startLine \in RowIds, k \in 0..MaxWrap :
           startLine + k \in RowIds /\ Detect(c, startLine, startLine + k)
    \/ \E c \in CallIds : TryMatcher(c)
    \/ \E c \in CallIds : ScanUp(c)
    \/ \E c \in CallIds : ResolveCandidate(c)
    \/ \E c \in CallIds, outcome \in ConcOutcomes : ResolverSettles(c, outcome)
    \/ \E c \in CallIds : Resume(c)
    \/ \E width \in Widths : Resize(width)
    \/ \E fs \in FolderLists : SetWorkspaceFolders(fs)
    \/ \E i \in RowIds, row \in ConcRows : WriteRow(i, row)

ConcSpec == ConcInit /\ [][ConcNext]_vars

\* --------------------------------------------- the stack trace example --
\* "  at foo.js:10:5", "  at bar.js:20:3", "/home/user/project/src/app.ts"
FooRow ==
    S(<<" ", " ", "a", "t", " ", "f", "o", "o", ".", "j", "s", ":", "1",
        "0", ":", "5">>)
BarRow ==
    S(<<" ", " ", "a", "t", " ", "b", "a", "r", ".", "j", "s", ":", "2",
        "0", ":", "3">>)
AppRow ==
    S(<<"/", "h", "o", "m", "e", "/", "u", "s", "e", "r", "/", "p", "r",
        "o", "j", "e", "c", "t", "/", "s", "r", "c", "/", "a", "p", "p",
        ".", "t", "s">>)

\* the rows in the order of the example, and with the path above the frame
ExampleBuffer == [i \in 0..2 |-> IF i = 0 THEN FooRow ELSE IF i = 1 THEN BarRow ELSE AppRow]
PathAboveBuffer == [i \in 0..2 |-> IF i = 0 THEN FooRow ELSE IF i = 1 THEN AppRow ELSE BarRow]

ProjectRoot == <<"home", "user", "project">>
AppUri == <<"home", "user", "project", "src", "app.ts">>
AppFile == [kind |-> "stat", stat |-> [uri |-> AppUri, isDirectory |-> FALSE]]

ExampleOutcomes ==
    {[kind |-> "null"], AppFile,
     [kind |-> "stat", stat |-> [uri |-> AppUri, isDirectory |-> TRUE]]}

\* every arrangement of the three rows in a buffer of three rows
ExampleInit ==
    /\ buffer \in {b \in [0..2 -> {FooRow, BarRow, AppRow}] : \A i, j \in 0..2 : i # j => b[i] # b[j]}
    /\ cols = 2048
    /\ folders = <<ProjectRoot>>
    /\ calls = [c \in CallIds |-> NotCalled]
    /\ hostSteps = 0
    /\ cell = NewCell
    /\ git = NewGit
    /\ gulp = NewGulp

ExampleNext ==
    \/ \E c \in SoloCalls, startLine \in 0..2, k \in 0..MaxWrap :
           startLine + k <= 2 /\ Detect(c, startLine, startLine + k)
    \/ \E c \in SoloCalls : TryMatcher(c)
    \/ \E c \in SoloCalls : ScanUp(c)
    \/ \E c \in SoloCalls : ResolveCandidate(c)
    \/ \E c \in SoloCalls, outcome \in ExampleOutcomes : ResolverSettles(c, outcome)
    \/ \E c \in SoloCalls : Resume(c)

ExampleSpec == ExampleInit /\ [][ExampleNext]_vars

\* ---------------------------------------------- one invocation alone ----
\* lines 98-107 run without interruption on the buffer buf
RECURSIVE ScanAlone(_, _, _)
ScanAlone(buf, width, index) ==
    IF ~ScanContinues(index) THEN None
    ELSE LET text == getXtermLineContent(buf, index, index, width)
         IN  IF ~DigitPrefixed(text) THEN Some(text)
             ELSE ScanAlone(buf, width, index - 1)

\* lines 77-153 run from matcher m on, when nothing else runs in between:
\* the buffer, width and folders are those of env for the whole call and
\* the resolver answers outcome
RECURSIVE AloneFrom(_, _, _, _, _)
AloneFrom(env, startLine, endLine, outcome, m) ==
    IF m > Len(candidateMatchers)
    THEN [pc |-> "done", links |-> <<>>, error |-> None]
    ELSE LET text == getXtermLineContent(env.buffer, startLine, endLine, env.cols)
             group == MatchGroups(text, candidateMatchers[m])
             next == AloneFrom(env, startLine, endLine, outcome, m + 1)
         IN  IF group = None THEN next
             ELSE IF group[1].link = <<>> \/ group[1].line = None THEN next
             ELSE IF LinkTooLong(group[1].link) THEN next
             ELSE LET possiblePath == ScanAlone(env.buffer, env.cols, ScanStart(startLine))
                      cl == [link |-> group[1].link, line |-> group[1].line,
                             col |-> group[1].col, text |-> text,
                             startLine |-> startLine, endLine |-> endLine]
                  IN  IF Falsy(possiblePath) THEN next
                      ELSE CASE outcome.kind = "throw" ->
                                    [pc |-> "rejected", links |-> <<>>,
                                     error |-> Some(outcome.fault)]
                             [] outcome.kind = "null" -> next
                             [] outcome.kind = "stat" ->
                                    [pc |-> "done",
                                     links |-> <<SimpleLink(cl, outcome.stat,
                                                    IndexOf(text, group[1].link),
                                                    env.cols, env.folders)>>,
                                     error |-> None]

\* lines 62-154: the outcome of detect run alone
RunAlone(env, startLine, endLine, outcome) ==
    IF RejectText(getXtermLineContent(env.buffer, startLine, endLine, env.cols))
    THEN [pc |-> "done", links |-> <<>>, error |-> None]
    ELSE AloneFrom(env, startLine, endLine, outcome, 1)

\* a call has returned or thrown
Settled(c) == calls[c].pc \in {"done", "rejected"}

\* what the caller of a settled call gets
Result(c) == [pc |-> calls[c].pc, links |-> calls[c].links, error |-> calls[c].error]

\* the answer the resolver gave the call, if it was asked
Answer(c) == IF calls[c].settled = None THEN [kind |-> "null"] ELSE calls[c].settled[1]

\* ------------------------------------------ MarkdownCellViewModel html ----
\* texts of a markup cell
CellTexts == {<<>>, S(<<"#">>), S(<<"a">>)}

\* lines 228-235: the element for a text; every render makes a new element
Element(cl) ==
    [id |-> cl.renders + 1,
     kind |-> IF StrLen(cl.text) = 0 THEN "placeholder" ELSE "rendered",
     source |-> cl.text]

\* lines 216-218
clearHTML(cl) == [cl EXCEPT !.html = None]

\* lines 220-240: cellKind is CellKind.Markup
getHTML(cl) ==
    IF cl.html # None
    THEN [cl EXCEPT !.returned = cl.html, !.gets = @ + 1]
    ELSE [cl EXCEPT !.html = Some(Element(cl)),
                    !.returned = Some(Element(cl)),
                    !.renders = @ + 1,
                    !.gets = @ + 1]

\* the content change leaving the rendered element in place
onDidChangeTextModelContentKeepsHTML(cl) == cl

\* lines 242-245: the listeners of onDidChangeState are outside the class
onDidChangeTextModelContent(cl) == [cl EXCEPT !.html = None]

ClearHTML ==
    /\ cell' = clearHTML(cell)
    /\ UNCHANGED <<buffer, cols, folders, calls, hostSteps, git, gulp>>

GetHTML ==
    /\ cell.gets < MaxGets
    /\ cell' = getHTML(cell)
    /\ UNCHANGED <<buffer, cols, folders, calls, hostSteps, git, gulp>>

\* the text model of the cell gets the content text and notifies the cell
ChangeContent(text) ==
    /\ text # cell.text
    /\ cell' = onDidChangeTextModelContent([cell EXCEPT !.text = text])
    /\ UNCHANGED <<buffer, cols, folders, calls, hostSteps, git, gulp>>

CellInit ==
    /\ buffer = [i \in RowIds |-> EmptyRow]
    /\ cols = 2048
    /\ folders = << <<"w">> >>
    /\ calls = [c \in CallIds |-> NotCalled]
    /\ hostSteps = 0
    /\ cell \in {[NewCell EXCEPT !.text = text] : text \in CellTexts}
    /\ git = NewGit
    /\ gulp = NewGulp

CellNext ==
    \/ GetHTML
    \/ ClearHTML
    \/ \E text \in CellTexts : ChangeContent(text)

CellSpec == CellInit /\ [][CellNext]_vars

\* ------------------------------------------------- git extension main ----
\* messages of the errors createModel can fail with, as their words
NotFoundMessage == <<"Git", "installation", "not", "found">>

\* the test of the message anchored at its start
TestNotFoundAtStart(message) ==
    Len(message) >= Len(NotFoundMessage)
        /\ SubSeq(message, 1, Len(NotFoundMessage)) = NotFoundMessage

\* /Git installation not found/.test(err.message || '')
TestNotFound(message) ==
    \E i \in 0..(Len(message) - Len(NotFoundMessage)) :
        SubSeq(message, i + 1, i + Len(NotFoundMessage)) = NotFoundMessage

\* the found git compared as it was given
validatorRaw(excludes, gitPath) ==
    IF Len(excludes) = 0 THEN TRUE
    ELSE ~(\E i \in 1..Len(excludes) : startsWith(gitPath, excludes[i]))

\* lines 550-562: the validator handed to findGit
validator(excludes, gitPath) ==
    IF Len(excludes) = 0 THEN TRUE
    ELSE LET normalized == StripLineEnds(normalize(gitPath))
         IN  ~(\E i \in 1..Len(excludes) : startsWith(normalized, excludes[i]))

\* lines 538-550: createModel up to its first await
createModel(g, act, caller) ==
    LET pathValue == g.pathValue
        \* line 540: string | string[] | undefined made a list
        pathHints ==
            IF pathValue.kind = "array" THEN pathValue.value
            ELSE IF pathValue.kind = "string" /\ pathValue.value # <<>>
                 THEN <<pathValue.value>>
                 ELSE <<>>
        \* line 543
        excludes ==
            IF g.isTrusted THEN <<>>
            ELSE [i \in 1..Len(g.workspaceFolders) |->
                      StripLineEnds(normalize(g.workspaceFolders[i]))]
    IN  [act EXCEPT !.create = "findGit",
                    !.creates = @ + 1,
                    !.createdBy = caller,
                    !.excludes = excludes,
                    !.pathHints = IF ~g.isTrusted /\ Len(pathHints) # 0
                                  THEN SelectSeq(pathHints, isAbsolute)
                                  ELSE pathHints]

\* lines 729-732 and 676-700: activate calls _activate, which runs to its
\* return (git disabled) or to the await of createModel
Activate(a) ==
    /\ git.acts[a].pc = "idle"
    /\ \A b \in ActIds : b < a => git.acts[b].pc # "idle"
    /\ LET act == [git.acts[a] EXCEPT !.enabledAtCall = git.enabled]
       IN  git' = [git EXCEPT
               !.deactivateTasks = Append(@, a),
               !.acts[a] =
                   IF ~git.enabled
                   THEN [act EXCEPT !.listening = TRUE,
                                    !.result = Some([model |-> None]),
                                    !.pc = "returned",
                                    !.apiCommands = @ + 1,
                                    !.apc = "done"]
                   ELSE [createModel(git, act, "activate") EXCEPT
                                    !.pc = "creating", !.apc = "awaiting"]]
    /\ UNCHANGED <<buffer, cols, folders, calls, hostSteps, cell, gulp>>

\* the gits findGit can come upon
UsrGit == <<"/", "u", "/", "g">>
GitPaths ==
    {UsrGit,
     <<"/", "w", "/", "g">>,                                   \* /w/g
     <<"/", "w", "2", "/", "g">>,                              \* /w2/g
     <<"/", "u", "/", ".", ".", "/", "w", "/", "g">>,          \* /u/../w/g
     <<"/", "w", "/", ".", ".", "/", "u", "/", "g", "\n">>}    \* /w/../u/g and a line end

\* what the promise of findGit settles with
FindGitOutcomes ==
    {[kind |-> "info", path |-> gitPath] : gitPath \in GitPaths}
        \cup {[kind |-> "error", message |-> message] :
                  message \in {NotFoundMessage,
                               <<"Error", "Git", "installation", "not", "found", "in", "PATH">>,
                               <<"Git", "not", "found">>,
                               <<>>}}

\* lines 695 and 700-701: createModel resolved with a model
OnModel(act, model) ==
    IF act.pc = "creating"
    THEN [act EXCEPT !.create = "resolved",
                     !.result = Some([model |-> Some(model)]),
                     !.pc = "returned",
                     !.apiCommands = @ + 1,
                     !.apc = "done"]
    ELSE [act EXCEPT !.create = "resolved",
                     !.result = Some([model |-> Some(model)])]

\* lines 702-721 and 732-734: createModel rejected while _activate awaits it
OnCreateError(act, message) ==
    IF ~TestNotFound(message)
    THEN [act EXCEPT !.create = "failed",
                     !.failure = Some(message),
                     !.error = Some(message),
                     !.pc = "thrown",
                     !.apc = "rejected"]
    ELSE [act EXCEPT !.create = "failed",
                     !.failure = Some(message),
                     !.telemetry = Append(@, "git.missing"),
                     !.result = Some([model |-> None]),
                     !.pc = "returned",
                     !.apiCommands = @ + 1,
                     !.apc = "done"]

\* findGit calls the validator for a git it found and gets false
FindGitSkips(a, gitPath) ==
    /\ git.acts[a].create = "findGit"
    /\ gitPath \notin git.acts[a].skipped
    /\ ~validator(git.acts[a].excludes, gitPath)
    /\ git' = [git EXCEPT !.acts[a].skipped = @ \cup {gitPath}]
    /\ UNCHANGED <<buffer, cols, folders, calls, hostSteps, cell, gulp>>

\* line 550: the promise of findGit settles, with a git the validator
\* accepted or with an error; line 695: a rejection of the createModel
\* called after a configuration change has no handler
FindGitSettles(a, outcome) ==
    /\ git.acts[a].create = "findGit"
    /\ LET act == git.acts[a]
       IN  IF outcome.kind = "info"
           THEN /\ validator(act.excludes, outcome.path)
                /\ git' = [git EXCEPT !.acts[a] =
                              [act EXCEPT !.create = "ipc", !.info = Some(outcome.path)]]
           ELSE git' = [git EXCEPT
                    \* line 717
                    !.missing = @ \/ (act.pc = "creating" /\ TestNotFound(outcome.message)),
                    !.acts[a] = IF act.pc = "creating"
                                THEN OnCreateError(act, outcome.message)
                                ELSE [act EXCEPT !.create = "failed",
                                                 !.failure = Some(outcome.message)]]
    /\ UNCHANGED <<buffer, cols, folders, calls, hostSteps, cell, gulp>>

\* lines 566-624: createIPCServer settles (its failure is logged), the rest
\* of createModel runs and the caller goes on with the model
IpcSettles(a, server) ==
    /\ git.acts[a].create = "ipc"
    /\ LET act == [git.acts[a] EXCEPT !.ipcServer = server]
       IN  git' = [git EXCEPT !.acts[a] = OnModel(act, [git |-> act.info[1], of |-> a])]
    /\ UNCHANGED <<buffer, cols, folders, calls, hostSteps, cell, gulp>>

\* filterEvent(event, filter) of ./util: the event that fires when event
\* fires with something the filter lets through
filterEvent(fires, passes) == fires /\ passes

\* the listener of line 695 hearing of every change
HearsAll(g, section) == TRUE

\* lines 691-692: onEnabled, the two filters on
\* workspace.onDidChangeConfiguration, at a change of section
Hears(g, section) == filterEvent(filterEvent(TRUE, section = "git"), g.enabled = TRUE)

\* a configuration change: a change of section git may set git.enabled; the
\* listeners of line 691-695 run, and the pending promise of an activation
\* resolves once, calling createModel
ChangeConfiguration(section, value) ==
    /\ git.changes < MaxConfigChanges
    /\ LET g == [git EXCEPT !.enabled = IF section = "git" THEN value ELSE @,
                            !.changes = @ + 1,
                            !.changed = section]
       IN  git' = [g EXCEPT !.acts =
               [a \in ActIds |->
                   IF g.acts[a].listening /\ Hears(g, section)
                   THEN createModel(g, [g.acts[a] EXCEPT !.listening = FALSE], "change")
                   ELSE g.acts[a]]]
    /\ UNCHANGED <<buffer, cols, folders, calls, hostSteps, cell, gulp>>

\* lines 533-534: the next iteration of the loop over the array, which
\* sees the tasks pushed since the call, or the end of the loop
NextTask(d, tasks) ==
    IF d.index < Len(tasks)
    THEN [d EXCEPT !.index = @ + 1,
                   !.started = Append(@, tasks[d.index + 1]),
                   !.pc = "awaiting"]
    ELSE [d EXCEPT !.pc = "done"]

\* the rejection of a task not ending the loop
TaskSettledGoesOn(d, tasks, ok) ==
    NextTask([d EXCEPT !.settled = Append(@, ok)], tasks)

\* line 534: the awaited promise of the running task settles
TaskSettled(d, tasks, ok) ==
    IF ok
    THEN NextTask([d EXCEPT !.settled = Append(@, TRUE)], tasks)
    ELSE [d EXCEPT !.settled = Append(@, FALSE), !.pc = "rejected"]

\* lines 532-536
Deactivate ==
    /\ git.deact.pc = "idle"
    /\ git' = [git EXCEPT !.deact = NextTask(@, git.deactivateTasks)]
    /\ UNCHANGED <<buffer, cols, folders, calls, hostSteps, cell, gulp>>

TaskSettles(ok) ==
    /\ git.deact.pc = "awaiting"
    /\ git' = [git EXCEPT !.deact = TaskSettled(@, git.deactivateTasks, ok)]
    /\ UNCHANGED <<buffer, cols, folders, calls, hostSteps, cell, gulp>>

GitInit ==
    /\ buffer = [i \in RowIds |-> EmptyRow]
    /\ cols = 2048
    /\ folders = << <<"w">> >>
    /\ calls = [c \in CallIds |-> NotCalled]
    /\ hostSteps = 0
    /\ cell = NewCell
    /\ git \in {[NewGit EXCEPT !.enabled = enabled] : enabled \in BOOLEAN}
    /\ gulp = NewGulp

GitNext ==
    \/ \E a \in ActIds : Activate(a)
    \/ \E section \in {"git", "editor"}, value \in BOOLEAN : ChangeConfiguration(section, value)
    \* in a trusted workspace every git passes for the validator: one will do
    \/ \E a \in ActIds, outcome \in {o \in FindGitOutcomes : o.kind = "info" => o.path = UsrGit} :
           FindGitSettles(a, outcome)
    \/ \E a \in ActIds, server \in BOOLEAN : IpcSettles(a, server)
    \/ Deactivate
    \/ \E ok \in BOOLEAN : TaskSettles(ok)

GitSpec == GitInit /\ [][GitNext]_vars

\* ---------------------------------------------- createModel and trust ----
TrustInit ==
    /\ buffer = [i \in RowIds |-> EmptyRow]
    /\ cols = 2048
    /\ folders = << <<"w">> >>
    /\ calls = [c \in CallIds |-> NotCalled]
    /\ hostSteps = 0
    /\ cell = NewCell
    /\ git \in {[NewGit EXCEPT !.isTrusted = isTrusted,
                               !.pathValue = pathValue,
                               !.workspaceFolders = workspaceFolders] :
                    isTrusted \in BOOLEAN,
                    \* values of the setting git.path: g, /u/g, [g, /u/g, ./g, /w/g]
                    pathValue \in
                        {[kind |-> "undefined"],
                         [kind |-> "string", value |-> <<>>],
                         [kind |-> "string", value |-> <<"g">>],
                         [kind |-> "string", value |-> UsrGit],
                         [kind |-> "array", value |-> <<>>],
                         [kind |-> "array",
                          value |-> << <<"g">>, UsrGit, <<".", "/", "g">>,
                                       <<"/", "w", "/", "g">> >>]},
                    \* workspace.workspaceFolders, undefined taken as the
                    \* empty list (line 542): none, [/w], [/x, /w/.]
                    workspaceFolders \in
                        {<<>>,
                         << <<"/", "w">> >>,
                         << <<"/", "x">>, <<"/", "w", "/", ".">> >>}}
    /\ gulp = NewGulp

TrustNext ==
    \/ Activate(1)
    \/ \E gitPath \in GitPaths : FindGitSkips(1, gitPath)
    \/ \E outcome \in FindGitOutcomes : FindGitSettles(1, outcome)
    \/ \E server \in BOOLEAN : IpcSettles(1, server)

TrustSpec == TrustInit /\ [][TrustNext]_vars

\* ---------------------------------------- MarkdownCellViewModel layout ----
\* lines 154-187
layoutChange(cl, state) ==
    LET editorWidth == IF state.outerWidth # None
                       THEN computeMarkdownCellEditorWidth(state.outerWidth[1])
                       ELSE cl.layoutInfo.editorWidth
        totalHeight == IF ~cl.inputCollapsed
                       THEN (IF state.totalHeight = None
                             THEN cl.layoutInfo.totalHeight
                             ELSE state.totalHeight[1])
                       ELSE CollapsedMarkdownCellHeight
    IN  [cl EXCEPT
            !.layoutInfo =
                [fontInfo |-> IF state.font # None THEN state.font ELSE cl.layoutInfo.fontInfo,
                 editorWidth |-> editorWidth,
                 editorHeight |-> cl.editorHeight,
                 bottomToolbarOffset |-> computeBottomToolbarOffset(totalHeight),
                 totalHeight |-> totalHeight],
            !.state = Some(IF cl.inputCollapsed
                           THEN [state EXCEPT !.totalHeight = Some(totalHeight)]
                           ELSE state),
            !.fired = @ + 1]

OnlyTotalHeight(newHeight) ==
    [totalHeight |-> Some(newHeight), outerWidth |-> None, font |-> None]

\* the setter laying out at every assignment
setTotalHeightAlways(cl, newHeight) == layoutChange(cl, OnlyTotalHeight(newHeight))

\* lines 36-40: set totalHeight
setTotalHeight(cl, newHeight) ==
    IF newHeight # cl.layoutInfo.totalHeight
    THEN layoutChange(cl, OnlyTotalHeight(newHeight))
    ELSE cl

\* the operation recorded
Did(cl, op, arg) == [cl EXCEPT !.op = op, !.arg = Some(arg), !.ops = @ + 1]

\* lines 29-34: set renderedMarkdownHeight
SetRenderedMarkdownHeight(newHeight) ==
    /\ cell.ops < MaxLayoutOps
    /\ cell' = Did(IF cell.editState = "Preview"
                   THEN setTotalHeight(cell, newHeight + bottomToolbarGap)
                   ELSE cell,
                   "renderedMarkdownHeight", newHeight)
    /\ UNCHANGED <<buffer, cols, folders, calls, hostSteps, git, gulp>>

\* lines 46-56: set editorHeight
SetEditorHeight(newHeight) ==
    /\ cell.ops < MaxLayoutOps
    /\ cell' = Did(setTotalHeight([cell EXCEPT !.editorHeight = newHeight],
                                  newHeight + markdownCellTopMargin + markdownCellBottomMargin
                                      + bottomToolbarGap + StatusBarHeight),
                   "editorHeight", newHeight)
    /\ UNCHANGED <<buffer, cols, folders, calls, hostSteps, git, gulp>>

\* lines 154-187: layoutChange called from outside the class
LayoutChange(state) ==
    /\ cell.ops < MaxLayoutOps
    /\ cell' = Did(layoutChange(cell, state), "layoutChange", state)
    /\ UNCHANGED <<buffer, cols, folders, calls, hostSteps, git, gulp>>

\* the edit state of the base class changes
UpdateEditState(editState) ==
    /\ cell.ops < MaxLayoutOps
    /\ editState # cell.editState
    /\ cell' = Did([cell EXCEPT !.editState = editState], "editState", editState)
    /\ UNCHANGED <<buffer, cols, folders, calls, hostSteps, git, gulp>>

\* lines 131-135: the metadata of the model changes
ChangeMetadata(inputCollapsed) ==
    /\ cell.ops < MaxLayoutOps
    /\ cell' = Did([cell EXCEPT !.inputCollapsed = inputCollapsed,
                                !.hides = IF inputCollapsed THEN @ + 1 ELSE @],
                   "metadata", inputCollapsed)
    /\ UNCHANGED <<buffer, cols, folders, calls, hostSteps, git, gulp>>

\* heights: 48 rendered and 10 edited give the same total height
Heights == {0, 10, 48}

LayoutInit ==
    /\ buffer = [i \in RowIds |-> EmptyRow]
    /\ cols = 2048
    /\ folders = << <<"w">> >>
    /\ calls = [c \in CallIds |-> NotCalled]
    /\ hostSteps = 0
    /\ cell = NewCell
    /\ git = NewGit
    /\ gulp = NewGulp

LayoutNext ==
    \/ \E newHeight \in Heights : SetRenderedMarkdownHeight(newHeight)
    \/ \E newHeight \in Heights : SetEditorHeight(newHeight)
    \/ \E state \in [totalHeight : {None, Some(66), Some(40)},
                      outerWidth : {None, Some(100)},
                      font : {None, Some("mono")}] : LayoutChange(state)
    \/ \E editState \in {"Preview", "Editing"} : UpdateEditState(editState)
    \/ \E inputCollapsed \in BOOLEAN : ChangeMetadata(inputCollapsed)

LayoutSpec == LayoutInit /\ [][LayoutNext]_vars

\* ----------------------------------------------- running build tasks ----
\* where a task stands, from where its task functions stand: a series
\* stands where its first unfinished task stands, a parallel task has failed
\* when one of its tasks has, and is done when all are
RECURSIVE Status(_, _)
Status(t, st) ==
    IF t.kind = "leaf" THEN st[t.id]
    ELSE LET sts == [i \in 1..Len(t.tasks) |-> Status(t.tasks[i], st)]
             open == {i \in 1..Len(t.tasks) : sts[i] # "done"}
         IN  IF open = {} THEN "done"
             ELSE IF t.kind = "series"
             THEN LET k == CHOOSE i \in open : \A j \in open : i <= j
                  IN  IF sts[k] = "failed" THEN "failed"
                      ELSE IF k = 1 /\ sts[k] = "pending" THEN "pending"
                      ELSE "running"
             ELSE IF \E i \in open : sts[i] = "failed" THEN "failed"
             ELSE IF \A i \in 1..Len(t.tasks) : sts[i] = "pending" THEN "pending"
             ELSE "running"

\* the task functions a running task calls next: series calls the task
\* after the last finished one, parallel calls all its tasks
RECURSIVE Startable(_, _)
Startable(t, st) ==
    IF t.kind = "leaf" THEN (IF st[t.id] = "pending" THEN {t.id} ELSE {})
    ELSE LET open == {i \in 1..Len(t.tasks) : Status(t.tasks[i], st) # "done"}
         IN  IF open = {} THEN {}
             ELSE IF t.kind = "series"
             THEN Startable(t.tasks[CHOOSE i \in open : \A j \in open : i <= j], st)
             ELSE UNION {Startable(t.tasks[i], st) : i \in open}

\* the runtime fetched whether the directory exists or not
startNodeFetchesAnyway(g, name) ==
    [g EXCEPT !.st[<<name>>] = "running", !.fetches[name] = @ + 1]

\* lines 147-160: the task function of a node task up to its return
startNode(g, name) ==
    IF g.nodePath[name] = "missing"
    THEN [g EXCEPT !.st[<<name>>] = "running", !.fetches[name] = @ + 1]
    ELSE [g EXCEPT !.st[<<name>>] = "done"]

\* gulp calls a task function, one of those the task it runs calls next
StartLeaf(id) ==
    /\ gulp.root # "none"
    /\ id \in Startable(TaskNamed(gulp.root), gulp.st)
    /\ gulp' = IF Len(id) = 1 /\ id[1] \in NodeTasks
               THEN startNode(gulp, id[1])
               ELSE [gulp EXCEPT !.st[id] = "running"]
    /\ UNCHANGED <<buffer, cols, folders, calls, hostSteps, cell, git>>

\* a task function other than that of a node task completes or fails
FinishLeaf(id, ok) ==
    /\ gulp.st[id] = "running"
    /\ ~(Len(id) = 1 /\ id[1] \in NodeTasks)
    /\ gulp' = [gulp EXCEPT !.st[id] = IF ok THEN "done" ELSE "failed"]
    /\ UNCHANGED <<buffer, cols, folders, calls, hostSteps, cell, git>>

\* lines 154-155: the stream of nodejs(...).pipe(vfs.dest(nodePath)) ends,
\* the runtime written; or fails, with nothing written or with a directory
\* that holds a part of it
FinishFetch(name, outcome) ==
    /\ gulp.st[<<name>>] = "running"
    /\ gulp' = [gulp EXCEPT
           !.st[<<name>>] = IF outcome = "written" THEN "done" ELSE "failed",
           !.nodePath[name] = IF outcome = "failed" THEN @ ELSE outcome,
           !.lost[name] = IF outcome = "failed" THEN @ + 1 ELSE @]
    /\ UNCHANGED <<buffer, cols, folders, calls, hostSteps, cell, git>>


\* gulp is run for a node task, again when its run before is over
RunNodeTask(name) ==
    /\ gulp.runs[name] < MaxRuns
    /\ gulp.st[<<name>>] # "running"
    /\ gulp' = [startNode(gulp, name) EXCEPT !.root = name, !.runs[name] = @ + 1]
    /\ UNCHANGED <<buffer, cols, folders, calls, hostSteps, cell, git>>

BuildInit ==
    /\ buffer = [i \in RowIds |-> EmptyRow]
    /\ cols = 2048
    /\ folders = << <<"w">> >>
    /\ calls = [c \in CallIds |-> NotCalled]
    /\ hostSteps = 0
    /\ cell = NewCell
    /\ git = NewGit
    /\ gulp \in {[NewGulp EXCEPT !.root = root, !.nodePath["node-linux-x64"] = nodePath] :
                     root \in ServerTasks, nodePath \in {"missing", "written"}}

BuildNext ==
    \/ \E id \in AllLeaves : StartLeaf(id)
    \/ \E id \in AllLeaves, ok \in BOOLEAN : FinishLeaf(id, ok)
    \/ \E name \in NodeTasks, outcome \in {"written", "failed", "broken"} : FinishFetch(name, outcome)

BuildSpec == BuildInit /\ [][BuildNext]_vars

NodeInit ==
    /\ buffer = [i \in RowIds |-> EmptyRow]
    /\ cols = 2048
    /\ folders = << <<"w">> >>
    /\ calls = [c \in CallIds |-> NotCalled]
    /\ hostSteps = 0
    /\ cell = NewCell
    /\ git = NewGit
    /\ gulp \in {[NewGulp EXCEPT !.nodePath = nodePath] :
                     nodePath \in [NodeTasks -> {"missing", "written"}]}

NodeNext ==
    \/ \E name \in NodeTasks : RunNodeTask(name)
    \/ \E name \in NodeTasks, outcome \in {"written", "failed", "broken"} : FinishFetch(name, outcome)

NodeSpec == NodeInit /\ [][NodeNext]_vars

TypeOK ==
    /\ cols \in Widths
    /\ folders \in FolderLists \cup {<<ProjectRoot>>}
    /\ hostSteps \in 0..MaxHostSteps
    /\ \A c \in CallIds :
           calls[c].pc \in {"idle", "match", "scan", "scanned", "await", "done", "rejected"}

\* ------------------------------------------------------------- claims ---
\* C1: one detect call returns at most one link, and once a link is pushed
\* the matcher loop is left at once: the call is done.
C1_AtMostOneLink ==
    \A c \in CallIds :
        /\ Len(calls[c].links) <= 1
        /\ Len(calls[c].links) = 1 => calls[c].pc = "done"

C1_Witness ==
    \E c \in CallIds : calls[c].pc = "done" /\ Len(calls[c].links) = 1

\* C2: when the flattened text is longer than MaxLineLength, detect returns
\* an empty sequence and never calls the resolver.
C2_LongTextNoLinks ==
    \A c \in CallIds :
        (calls[c].pc # "idle" /\ StrLen(calls[c].text) > MaxLineLength)
            => /\ calls[c].pc = "done"
               /\ calls[c].links = <<>>
               /\ calls[c].resolved = <<>>

C2_Witness ==
    \E c \in CallIds :
        calls[c].pc = "done" /\ StrLen(calls[c].text) > MaxLineLength

\* C3: the type of the emitted link follows the decision table on the
\* resolver's answer and the workspace folders at the time of the
\* classification: not a directory -> LocalFile; a directory equal to or
\* under some folder -> LocalFolderInWorkspace; any other directory ->
\* LocalFolderOutsideWorkspace.
C3_DecisionTable ==
    [][\A c \in CallIds :
          (calls[c].pc = "await" /\ calls'[c].pc = "done" /\ Len(calls'[c].links) = 1)
              => LET stat == calls[c].settled[1].stat
                     under == \E i \in DOMAIN folders :
                                  /\ Len(folders[i]) <= Len(stat.uri)
                                  /\ \A k \in 1..Len(folders[i]) : stat.uri[k] = folders[i][k]
                 IN  calls'[c].links[1].type =
                         IF ~stat.isDirectory THEN LocalFile
                         ELSE IF under THEN LocalFolderInWorkspace
                         ELSE LocalFolderOutsideWorkspace]_vars

C3_Witness ==
    \E c \in CallIds :
        /\ calls[c].pc = "done" /\ Len(calls[c].links) = 1
        /\ calls[c].links[1].type = LocalFolderInWorkspace
        /\ \E i \in DOMAIN folders : folders[i] = calls[c].links[1].uri
        /\ Len(folders) = 2

C5_ScanRange ==
    \A c \in CallIds :
        \A i \in calls[c].scanned : 1 <= i /\ i <= calls[c].startLine - 1

C5_Witness ==
    \E c \in CallIds :
        /\ calls[c].pc = "scanned"
        /\ 1 \in calls[c].scanned
        /\ calls[c].possiblePath = None

\* C6: the scan terminates: every iteration that stays in the loop lowers
\* the index, and the loop goes on only while the index is above 0; and when
\* every row it read is digit-prefixed, it ends without a candidate, the
\* resolver is not called and detect returns no link.
C6_ScanTerminates ==
    [][\A c \in CallIds :
          /\ calls[c].pc = "scan" =>
                 /\ calls'[c].pc \in {"scan", "scanned"}
                 /\ calls'[c].pc = "scan" =>
                        (calls[c].index > 0 /\ calls'[c].index < calls[c].index)
          /\ (/\ calls'[c].pc \notin {"idle", "scan"}
              /\ calls'[c].link # <<>>
              /\ \A i \in calls'[c].scanned : DigitPrefixed(buffer'[i]))
                 => /\ calls'[c].possiblePath = None
                    /\ calls'[c].pc \in {"scanned", "match", "done"}
                    /\ calls'[c].resolved = <<>>
                    /\ calls'[c].links = <<>>]_vars

C6_Witness ==
    \E c \in CallIds :
        /\ calls[c].pc = "done"
        /\ calls[c].link # <<>>
        /\ Cardinality(calls[c].scanned) >= 2
        /\ calls[c].possiblePath = None

\* C7: when the text has no digit followed by a colon, detect returns an
\* empty sequence, does not scan and never calls the resolver.
C7_NoFragmentNoLinks ==
    \A c \in CallIds :
        LET t == calls[c].text
            fragment == \E k \in 1..(Len(t) - 1) : IsDigit(t[k].ch) /\ t[k + 1].ch = ":"
        IN  (calls[c].pc # "idle" /\ ~fragment)
                => /\ calls[c].pc \in {"match", "done"}
                   /\ calls[c].links = <<>>
                   /\ calls[c].resolved = <<>>
                   /\ calls[c].scanned = {}

C7_Witness ==
    \E c \in CallIds :
        /\ calls[c].pc = "done"
        /\ calls[c].matcher > Len(candidateMatchers)
        /\ \E k \in 1..Len(calls[c].text) : IsDigit(calls[c].text[k].ch)
        /\ ~\E k \in 1..(Len(calls[c].text) - 1) :
               IsDigit(calls[c].text[k].ch) /\ calls[c].text[k + 1].ch = ":"

\* C8: when the matched fragment is longer than MaxResolvedLinkLength,
\* detect returns an empty sequence, does not scan and never calls the
\* resolver.
C8_LongLinkNoLinks ==
    \A c \in CallIds :
        LET group == LineColMatch(calls[c].text)
        IN  (/\ calls[c].pc # "idle"
             /\ group # None
             /\ StrLen(group[1].link) > MaxResolvedLinkLength)
                => /\ calls[c].pc \in {"match", "done"}
                   /\ calls[c].links = <<>>
                   /\ calls[c].resolved = <<>>
                   /\ calls[c].scanned = {}

C8_Witness ==
    \E c \in CallIds :
        /\ calls[c].pc = "done"
        /\ StrLen(calls[c].text) <= MaxLineLength
        /\ LineColMatch(calls[c].text) # None
        /\ StrLen(LineColMatch(calls[c].text)[1].link) > MaxResolvedLinkLength

\* C9: when the resolver fails, detect rejects with that failure: no link,
\* no second resolver call, and the call does not complete normally.
C9_FaultRejects ==
    \A c \in CallIds :
        (/\ calls[c].settled # None
         /\ calls[c].settled[1].kind = "throw"
         /\ calls[c].pc # "await")
            => /\ calls[c].pc = "rejected"
               /\ calls[c].error = Some(calls[c].settled[1].fault)
               /\ calls[c].links = <<>>
               /\ Len(calls[c].resolved) = 1

C9_Witness ==
    \E c \in CallIds :
        /\ calls[c].pc = "rejected"
        /\ calls[c].settled # None
        /\ calls[c].settled[1].kind = "throw"
        /\ calls[c].error = Some("ETIMEDOUT")

\* C10: when the resolver answers nothing, detect completes normally with
\* an empty sequence and the resolver is not called again.
C10_NullNoLinks ==
    \A c \in CallIds :
        (/\ calls[c].settled # None
         /\ calls[c].settled[1].kind = "null"
         /\ calls[c].pc # "await")
            => /\ calls[c].pc \in {"match", "done"}
               /\ calls[c].error = None
               /\ calls[c].links = <<>>
               /\ Len(calls[c].resolved) = 1

C10_Witness ==
    \E c \in CallIds :
        /\ calls[c].pc = "done"
        /\ calls[c].settled # None
        /\ calls[c].settled[1].kind = "null"

\* C11: one detect call calls the resolver at most once, and the wait for
\* that call is the only place where anything else runs: while the call is
\* between its start and the resolver call, or between the resolver's answer
\* and its return, every step is a step of that call alone; a call starts
\* to wait exactly when it has called the resolver.
C11_OneSuspension ==
    [][\A c \in CallIds :
          /\ Len(calls'[c].resolved) <= 1
          /\ (\/ calls[c].pc \in {"match", "scan", "scanned"}
              \/ calls[c].pc = "await" /\ calls[c].settled # None)
                 => /\ buffer' = buffer /\ cols' = cols /\ folders' = folders
                    /\ \A d \in CallIds \ {c} : calls'[d] = calls[d]
          /\ (calls[c].pc # "await" /\ calls'[c].pc = "await")
                 => Len(calls'[c].resolved) = Len(calls[c].resolved) + 1]_vars

C11_Witness ==
    /\ calls[1].pc = "await" /\ calls[2].pc = "await"
    /\ calls[1].settled = None /\ calls[2].settled = None
    /\ hostSteps >= 1

C13_ResultAsAlone ==
    \A c \in CallIds :
        Settled(c) =>
            Result(c) = RunAlone(calls[c].atCall, calls[c].startLine,
                                 calls[c].endLine, Answer(c))

\* the same without any host event: only the other invocation interleaves
C13_AloneWithoutHost ==
    \A c \in CallIds :
        (Settled(c) /\ hostSteps = 0) =>
            Result(c) = RunAlone(calls[c].atCall, calls[c].startLine,
                                 calls[c].endLine, Answer(c))

\* C14: two detect calls with the same row range, made on the same buffer,
\* width and folders with no host event in the behaviour, and given the same
\* answer by the resolver, end the same way with the same links.
C14_SameInputsSameOutput ==
    \A c, d \in CallIds :
        (/\ Settled(c) /\ Settled(d)
         /\ hostSteps = 0
         /\ calls[c].atCall = calls[d].atCall
         /\ calls[c].startLine = calls[d].startLine
         /\ calls[c].endLine = calls[d].endLine
         /\ calls[c].settled = calls[d].settled)
            => Result(c) = Result(d)

C14_Witness ==
    /\ Settled(1) /\ Settled(2)
    /\ hostSteps = 0
    /\ calls[1].startLine = calls[2].startLine
    /\ calls[1].endLine = calls[2].endLine
    /\ calls[1].settled = calls[2].settled
    /\ Len(calls[1].links) = 1
    /\ calls[1].links = calls[2].links

\* C15 as stated: with the rows of the example in their order and
\* startLine = 2, detect returns exactly one link, with text "20:3", type
\* LocalFile and selection line 20, column 3.
C15_ExampleAsStated ==
    \A c \in CallIds :
        (buffer = ExampleBuffer /\ calls[c].pc = "done" /\ calls[c].startLine = 2)
            => /\ Len(calls[c].links) = 1
               /\ calls[c].links[1].text = S(<<"2", "0", ":", "3">>)
               /\ calls[c].links[1].type = LocalFile
               /\ calls[c].links[1].selection = [startLineNumber |-> 20, startColumn |-> 3]

\* C15 amended: with the rows in the order of the example and startLine = 2
\* the text is the path row, which has no line:col fragment: detect returns
\* no link and does not call the resolver.  With the path row directly above
\* the frame row (rows foo, path, bar), startLine = endLine = 2 and the
\* resolver answering a file, detect resolves the path row and returns
\* exactly one link: text "20:3", LocalFile, line 20, column 3.
C15_ExamplePathAbove ==
    \A c \in CallIds :
        /\ (buffer = ExampleBuffer /\ calls[c].pc # "idle" /\ calls[c].startLine = 2)
               => /\ calls[c].pc \in {"match", "done"}
                  /\ calls[c].links = <<>>
                  /\ calls[c].resolved = <<>>
        /\ (/\ buffer = PathAboveBuffer
            /\ calls[c].pc = "done"
            /\ calls[c].startLine = 2
            /\ calls[c].settled = Some(AppFile))
               => /\ calls[c].resolved = <<AppRow>>
                  /\ Len(calls[c].links) = 1
                  /\ calls[c].links[1].text = S(<<"2", "0", ":", "3">>)
                  /\ calls[c].links[1].uri = AppUri
                  /\ calls[c].links[1].type = LocalFile
                  /\ calls[c].links[1].selection = [startLineNumber |-> 20, startColumn |-> 3]

C15_Witness ==
    \E c \in CallIds :
        /\ buffer = PathAboveBuffer
        /\ calls[c].pc = "done"
        /\ calls[c].startLine = 2
        /\ calls[c].settled = Some(AppFile)
        /\ Len(calls[c].links) = 1

\* C16: _isDirectoryInsideWorkspace(uri) is true exactly when some workspace
\* folder is equal to uri or an ancestor of it, and false when there is no
\* workspace folder; so a link to a directory is LocalFolderInWorkspace
\* exactly when some folder is equal to or an ancestor of the resolved uri,
\* and LocalFolderOutsideWorkspace whenever there are no folders.
C16_InsideIffSomeRoot ==
    LET ancestorOrEqual(f, uri) == \E n \in 0..Len(uri) : SubSeq(uri, 1, n) = f
        someRoot(uri, fs) == \E i \in 1..Len(fs) : ancestorOrEqual(fs[i], uri)
    IN  /\ \A uri \in Uris, fs \in FolderLists \cup {folders} :
               /\ isDirectoryInsideWorkspace(uri, fs) <=> someRoot(uri, fs)
               /\ fs = <<>> => ~isDirectoryInsideWorkspace(uri, fs)
        /\ \A c \in SoloCalls :
               (/\ calls[c].pc = "done"
                /\ Len(calls[c].links) = 1
                /\ calls[c].settled[1].stat.isDirectory)
                   => /\ calls[c].links[1].type = LocalFolderInWorkspace
                          <=> someRoot(calls[c].links[1].uri, folders)
                      /\ calls[c].links[1].type = LocalFolderOutsideWorkspace
                          <=> ~someRoot(calls[c].links[1].uri, folders)
                      /\ folders = <<>>
                          => calls[c].links[1].type = LocalFolderOutsideWorkspace

C16_Witness ==
    \E c \in SoloCalls :
        /\ calls[c].pc = "done"
        /\ Len(calls[c].links) = 1
        /\ calls[c].settled[1].stat.isDirectory
        /\ folders = <<>>
        /\ calls[c].links[1].type = LocalFolderOutsideWorkspace

\* C17: the logical range handed to the coordinate mapper is the fragment's
\* place in the flattened text: on logical line 1, starting at the 1-based
\* column of the fragment's first character, and ending at the fragment's
\* last character (as an inclusive end column) or just after it (as an
\* exclusive one), never further.
C17_RangeIsFragment ==
    \A c \in CallIds :
        \A k \in 1..Len(calls[c].links) :
            LET range == calls[c].links[k].bufferRange.range
                fragment == calls[c].links[k].text
            IN  /\ range.startLineNumber = 1
                /\ range.endLineNumber = 1
                /\ range.startColumn = IndexOf(calls[c].text, fragment) + 1
                /\ range.endColumn >= range.startColumn + StrLen(fragment) - 1
                /\ range.endColumn <= range.startColumn + StrLen(fragment)

\* C18: every emitted link has as text the matched line[:col] fragment (the
\* line digits, a colon, the column digits if any, as they occur in the
\* flattened text), as uri the uri the resolver returned, as
\* selection.startLineNumber the decimal value of the line digits, and as
\* selection.startColumn the decimal value of the column digits, or 0 when
\* the fragment has no column digits.
C18_LinkFields ==
    \A c \in CallIds :
        \A k \in 1..Len(calls[c].links) :
            LET link == calls[c].links[k]
                line == calls[c].line[1]
                col == IF calls[c].col = None THEN <<>> ELSE calls[c].col[1]
                digits(s) == \A p \in 1..StrLen(s) : IsDigit(CharAt(s, p))
                \* sum of digit * 10^place over the positions of s
                RECURSIVE value(_, _)
                value(s, p) ==
                    IF p > StrLen(s) THEN 0
                    ELSE DigitValue(CharAt(s, p)) * 10^(StrLen(s) - p) + value(s, p + 1)
            IN  /\ StrLen(link.text) = StrLen(line) + 1 + StrLen(col)
                /\ OccursAt(link.text, line, 0)
                /\ CharAt(link.text, StrLen(line) + 1) = ":"
                /\ OccursAt(link.text, col, StrLen(line) + 1)
                /\ StrLen(line) >= 1 /\ digits(line) /\ digits(col)
                /\ IndexOf(calls[c].text, link.text) >= 0
                /\ link.text = MatchGroups(calls[c].text, "lineCol")[1].link
                /\ calls[c].settled # None
                /\ calls[c].settled[1].kind = "stat"
                /\ link.uri = calls[c].settled[1].stat.uri
                /\ link.selection.startLineNumber = value(line, 1)
                /\ link.selection.startColumn = IF col = <<>> THEN 0 ELSE value(col, 1)

C18_Witness ==
    \E c \in CallIds :
        /\ calls[c].pc = "done"
        /\ Len(calls[c].links) = 1
        /\ calls[c].col = None
        /\ calls[c].links[1].text = S(<<"7", ":">>)
        /\ calls[c].links[1].selection = [startLineNumber |-> 7, startColumn |-> 0]

\* C19: getHTML caches its result in the one field html.  The field holds
\* either nothing or the element the last getHTML returned, and that element
\* was rendered from the current text.  A getHTML that finds an element
\* returns that same element and renders nothing; clearHTML and a content
\* change empty the field; a getHTML that finds the field empty renders a
\* new element from the current text, the placeholder when the text is
\* empty, caches it and returns it.
C19_HtmlCache ==
    [][/\ cell'.html # None
           => /\ cell'.html = cell'.returned
              /\ cell'.html[1].source = cell'.text
              /\ cell'.html[1].kind = "placeholder" <=> StrLen(cell'.text) = 0
       /\ (cell'.gets = cell.gets + 1 /\ cell.html # None)
           => /\ cell'.returned = cell.returned
              /\ cell'.html = cell.html
              /\ cell'.renders = cell.renders
       /\ (cell'.gets = cell.gets + 1 /\ cell.html = None)
           => /\ cell'.renders = cell.renders + 1
              /\ cell'.returned # None
              /\ cell'.returned[1].id > cell.renders
              /\ cell'.html = cell'.returned
       /\ (cell'.gets = cell.gets /\ cell' # cell)
           => cell'.html = None]_vars

C19_Witness ==
    /\ cell.gets = 3
    /\ cell.renders = 2
    /\ cell.html # None
    /\ cell.html = cell.returned
    /\ cell.html[1].kind = "placeholder"

\* C20: when the first row above startLine (going up, down to row 1) that
\* does not start with optional whitespace and a digit is the empty string,
\* the scan stops at that row, no row above it is read, the resolver is not
\* called and detect returns no link, whatever the rows further up hold.
C20_EmptyRowStopsScan ==
    \A c \in SoloCalls :
        LET skipped(row) == Len(row) > 0 /\ DigitPrefixed(row)
            above == {i \in 1..(calls[c].startLine - 1) : ~skipped(buffer[i])}
            top == CHOOSE i \in above : \A j \in above : j <= i
        IN  (calls[c].pc # "idle" /\ above # {} /\ buffer[top] = EmptyRow)
                => /\ calls[c].scanned \subseteq top..(calls[c].startLine - 1)
                   /\ calls[c].possiblePath \in {None, Some(EmptyRow)}
                   /\ calls[c].pc \in {"match", "scan", "scanned", "done"}
                   /\ calls[c].resolved = <<>>
                   /\ calls[c].links = <<>>

C20_Witness ==
    \E c \in SoloCalls :
        /\ calls[c].pc = "done"
        /\ calls[c].possiblePath = Some(EmptyRow)
        /\ calls[c].links = <<>>
        /\ calls[c].resolved = <<>>
        /\ \E i \in calls[c].scanned, j \in 1..(calls[c].startLine - 1) :
               /\ buffer[i] = EmptyRow
               /\ j < i
               /\ buffer[j] = PathRow
               /\ j \notin calls[c].scanned

\* C21: an activation made while git.enabled is false returns at once an
\* extension object without a model and calls createModel neither then nor
\* later, except in the step of a later configuration change that affects
\* section git and leaves git.enabled true; no activation calls createModel
\* twice; and the model of the object returned by such an activation is set
\* in the very step in which that createModel completes, not before.
C21_DisabledDefersModel ==
    [][\A a \in ActIds :
          LET before == git.acts[a]
              after == git'.acts[a]
          IN  /\ (before.pc = "idle" /\ after.pc # "idle" /\ ~git.enabled)
                     => /\ after.pc = "returned"
                        /\ after.result = Some([model |-> None])
                        /\ after.creates = 0
              /\ (after.pc # "idle" /\ ~after.enabledAtCall /\ after.creates # before.creates)
                     => /\ before.pc = "returned"
                        /\ git'.changes = git.changes + 1
                        /\ git'.changed = "git"
                        /\ git'.enabled
              /\ after.creates <= 1
              /\ (after.pc # "idle" /\ ~after.enabledAtCall /\ after.result[1].model # None)
                     => /\ after.create = "resolved"
                        /\ before.result = after.result \/ before.create = "ipc"]_vars

C21_Witness ==
    \E a \in ActIds :
        /\ ~git.acts[a].enabledAtCall
        /\ git.acts[a].pc = "returned"
        /\ git.acts[a].creates = 1
        /\ git.acts[a].create = "resolved"
        /\ git.acts[a].result[1].model # None
        /\ git.changes = 2

\* C22: when the createModel that _activate awaits fails with a message
\* that contains "Git installation not found", _activate resolves to an
\* extension object without a model, the telemetry event git.missing is
\* sent, the context key git.missing is true and activate registers the API
\* commands; with any other message _activate and activate reject with that
\* error and no API commands are registered.
C22_MissingGitOrReject ==
    \A a \in ActIds :
        LET act == git.acts[a]
            words == <<"Git", "installation", "not", "found">>
            contains == \E i, j \in 0..Len(act.failure[1]) :
                            /\ i + 4 + j = Len(act.failure[1])
                            /\ \A k \in 1..4 : act.failure[1][i + k] = words[k]
        IN  (act.create = "failed" /\ act.createdBy = "activate")
                => IF contains
                   THEN /\ act.pc = "returned"
                        /\ act.result = Some([model |-> None])
                        /\ act.telemetry = <<"git.missing">>
                        /\ git.missing
                        /\ act.error = None
                        /\ act.apc = "done"
                        /\ act.apiCommands = 1
                   ELSE /\ act.pc = "thrown"
                        /\ act.apc = "rejected"
                        /\ act.error = act.failure
                        /\ act.result = None
                        /\ act.telemetry = <<>>
                        /\ act.apiCommands = 0

C22_Witness ==
    /\ git.acts[1].create = "failed"
    /\ git.acts[1].createdBy = "activate"
    /\ git.acts[1].pc = "returned"
    /\ Len(git.acts[1].failure[1]) > 4
    /\ git.missing
    /\ git.acts[2].create = "failed"
    /\ git.acts[2].pc = "thrown"
    /\ git.acts[2].apiCommands = 0

\* C23: in an untrusted workspace every hint createModel passes to findGit
\* is a configured hint that is an absolute path, and the validator rejects
\* every found git whose normalized path starts with the normalized path of
\* a workspace folder, so findGit never resolves to such a git; in a trusted
\* workspace the hints passed are the configured ones, all of them in their
\* order, and the validator accepts every found git.
C23_UntrustedHintsAndGits ==
    LET act == git.acts[1]
        configured == IF git.pathValue.kind = "array" THEN git.pathValue.value
                      ELSE IF git.pathValue = [kind |-> "string", value |-> <<>>] THEN <<>>
                      ELSE IF git.pathValue.kind = "string" THEN <<git.pathValue.value>>
                      ELSE <<>>
        \* the normalized paths, written out
        canon(path) ==
            CASE path = UsrGit -> <<"/", "u", "/", "g">>
              [] path = <<"/", "w", "/", "g">> -> <<"/", "w", "/", "g">>
              [] path = <<"/", "w", "2", "/", "g">> -> <<"/", "w", "2", "/", "g">>
              [] path = <<"/", "u", "/", ".", ".", "/", "w", "/", "g">>
                     -> <<"/", "w", "/", "g">>
              [] path = <<"/", "w", "/", ".", ".", "/", "u", "/", "g", "\n">>
                     -> <<"/", "u", "/", "g">>
              [] path = <<"/", "w">> -> <<"/", "w">>
              [] path = <<"/", "w", "/", ".">> -> <<"/", "w">>
              [] path = <<"/", "x">> -> <<"/", "x">>
        inFolder(gitPath) ==
            \E i \in 1..Len(git.workspaceFolders) :
                LET folder == canon(git.workspaceFolders[i])
                IN  /\ Len(folder) <= Len(canon(gitPath))
                    /\ \A k \in 1..Len(folder) : canon(gitPath)[k] = folder[k]
    IN  act.create # "none"
            => IF git.isTrusted
               THEN /\ act.pathHints = configured
                    /\ \A gitPath \in GitPaths : validator(act.excludes, gitPath)
                    /\ act.skipped = {}
               ELSE /\ \A i \in 1..Len(act.pathHints) :
                           /\ act.pathHints[i][1] = "/"
                           /\ \E k \in 1..Len(configured) : configured[k] = act.pathHints[i]
                    /\ \A gitPath \in GitPaths :
                           inFolder(gitPath) => ~validator(act.excludes, gitPath)
                    /\ act.info # None => ~inFolder(act.info[1])

C23_Witness ==
    /\ ~git.isTrusted
    /\ git.pathValue.kind = "array"
    /\ git.acts[1].pathHints = <<UsrGit, <<"/", "w", "/", "g">> >>
    /\ git.acts[1].skipped = {<<"/", "w", "/", "g">>,
                              <<"/", "w", "2", "/", "g">>,
                              <<"/", "u", "/", ".", ".", "/", "w", "/", "g">>}
    /\ git.acts[1].info = Some(<<"/", "w", "/", ".", ".", "/", "u", "/", "g", "\n">>)
    /\ git.acts[1].create = "resolved"

\* C24: deactivate starts the deactivate tasks in the order they were
\* registered, one at a time: a task is started only when every task
\* started before it has resolved; when a task rejects, deactivate rejects
\* and starts no task any more; when deactivate resolves, every task it
\* started has resolved.
C24_TasksInSeries ==
    [][LET d == git'.deact
           tasks == git'.deactivateTasks
       IN  /\ Len(d.started) <= Len(tasks)
           /\ \A i \in 1..Len(d.started) : d.started[i] = tasks[i]
           /\ Len(d.settled) <= Len(d.started)
           /\ Len(d.started) <= Len(d.settled) + 1
           /\ \A i \in 1..Len(d.settled) : i < Len(d.started) => d.settled[i]
           /\ (\E i \in 1..Len(d.settled) : ~d.settled[i]) => d.pc = "rejected"
           /\ d.pc = "done" => Len(d.settled) = Len(d.started)
           /\ git.deact.pc = "rejected" => d = git.deact
           /\ Len(d.started) > Len(git.deact.started)
                  => /\ Len(d.started) = Len(git.deact.started) + 1
                     /\ Len(d.settled) = Len(git.deact.started)
                     /\ \A i \in 1..Len(d.settled) : d.settled[i]]_vars

C24_Witness ==
    /\ git.deact.pc = "rejected"
    /\ git.deact.started = <<1>>
    /\ git.deact.settled = <<FALSE>>
    /\ git.deactivateTasks = <<1, 2>>

\* deactivate ran both registered tasks, the second after the first resolved
C24_BothRan ==
    /\ git.deact.pc = "done"
    /\ git.deact.started = <<1, 2>>
    /\ git.deact.settled = <<TRUE, TRUE>>

\* C25: every call of layoutChange fires onDidChangeLayout exactly once, and
\* no operation fires it more than once; an assignment to editorHeight or
\* renderedMarkdownHeight whose total height equals layoutInfo.totalHeight
\* fires no event and leaves layoutInfo as it was; an assignment to
\* renderedMarkdownHeight outside the Preview edit state changes nothing;
\* and a layoutChange that runs while the input is collapsed sets
\* layoutInfo.totalHeight to the collapsed cell height, whatever was asked.
C25_LayoutEvents ==
    [][LET before == cell
           after == cell'
           assigns(op) == after.ops = before.ops + 1 /\ after.op = op
           same == after.fired = before.fired /\ after.layoutInfo = before.layoutInfo
       IN  /\ assigns("layoutChange") => after.fired = before.fired + 1
           /\ after.fired \in {before.fired, before.fired + 1}
           /\ (/\ assigns("editorHeight")
               /\ after.arg[1] + markdownCellTopMargin + markdownCellBottomMargin
                      + bottomToolbarGap + StatusBarHeight = before.layoutInfo.totalHeight)
                  => same
           /\ (/\ assigns("renderedMarkdownHeight")
               /\ before.editState = "Preview"
               /\ after.arg[1] + bottomToolbarGap = before.layoutInfo.totalHeight)
                  => same
           /\ (assigns("renderedMarkdownHeight") /\ before.editState # "Preview")
                  => before = [after EXCEPT !.op = before.op, !.arg = before.arg,
                                            !.ops = before.ops]
           /\ (after.fired = before.fired + 1 /\ before.inputCollapsed)
                  => /\ after.layoutInfo.totalHeight = CollapsedMarkdownCellHeight
                     /\ after.state[1].totalHeight = Some(CollapsedMarkdownCellHeight)]_vars

C25_Witness ==
    /\ cell.ops = 2
    /\ cell.op = "renderedMarkdownHeight"
    /\ cell.arg = Some(48)
    /\ cell.editState = "Preview"
    /\ cell.layoutInfo.editorHeight = 10
    /\ cell.layoutInfo.totalHeight = 66
    /\ cell.fired = 1

\* a layoutChange asked for 66 while the input was collapsed
C25_CollapsedLayout ==
    /\ cell.op = "layoutChange"
    /\ cell.inputCollapsed
    /\ cell.arg[1].totalHeight = Some(66)
    /\ cell.layoutInfo.totalHeight = CollapsedMarkdownCellHeight

\* C26: in a server build task the steps run strictly in series: compile
\* build, compile extensions, optimize (minify for the -min task), then the
\* steps of the -ci task: node runtime, yarn install of the extensions,
\* compile extensions, cleanup of the .yarnrc files, Angular rollup, removal
\* of the destination folder, packaging.  No task function of a step has
\* started unless every task function of every step before it is done; in
\* particular packaging has not started unless the removal is done.  In the
\* -pkg task the pkg step has not started unless the server task, the copy
\* of the pkg config and the copy of the pkg native files are all done.
C26_StepsInSeries ==
    LET yarn == {<<scope, step>> :
                     scope \in {"big-data-cluster", "mssql", "notebook"},
                     step \in {"copy .yarnrc", "rimraf node_modules", "yarn"}}
        optimize == {<<"rimraf out-vscode">>, <<"optimize">>}
        minify == {<<"patch product">>, <<"minify", "rimraf out-vscode">>,
                   <<"minify", "optimize">>, <<"rimraf out-vscode-min">>, <<"minify">>}
        ci == <<{<<"node-linux-x64">>}, yarn, {<<"ci", "compile extensions">>},
                {<<"cleanup extensions">>}, {<<"rollup angular">>},
                {<<"rimraf destination">>}, {<<"package">>}>>
        server(min) == <<{<<"compile build">>}, {<<"compile extensions">>},
                         IF min THEN minify ELSE optimize>> \o ci
        steps == IF gulp.root = "ci" THEN ci
                 ELSE server(gulp.root \in {"server-min", "pkg-min"})
        copies == {<<"rimraf out-vscode-pkg">>, <<"copy config">>,
                   <<"rimraf pkg folder">>, <<"copy native">>}
        begun(ids) == \E id \in ids : gulp.st[id] # "pending"
        done(ids) == \A id \in ids : gulp.st[id] = "done"
    IN  gulp.root \in ServerTasks
            => /\ \A j \in 1..Len(steps) : \A i \in 1..(j - 1) :
                      begun(steps[j]) => done(steps[i])
               /\ gulp.st[<<"package">>] # "pending" => gulp.st[<<"rimraf destination">>] = "done"
               /\ gulp.st[<<"pkg">>] # "pending"
                      => /\ gulp.root \in {"pkg", "pkg-min"}
                         /\ \A i \in 1..Len(steps) : done(steps[i])
                         /\ done(copies)
               /\ gulp.root \notin {"pkg", "pkg-min"} => ~begun(copies)

C26_Witness ==
    /\ gulp.root = "pkg-min"
    /\ gulp.st[<<"pkg">>] = "done"
    /\ gulp.st[<<"package">>] = "done"
    /\ gulp.st[<<"minify">>] = "done"

\* the copies of the -pkg task run beside the server task
C26_CopiesBeside ==
    /\ gulp.root = "pkg"
    /\ gulp.st[<<"package">>] = "running"
    /\ gulp.st[<<"copy config">>] = "running"
    /\ gulp.st[<<"rimraf pkg folder">>] = "pending"

\* C27 as stated: a node task fetches the runtime only when its directory
\* does not exist; when the directory exists the task completes without
\* fetching and leaves the directory as it is; and two runs of the task in
\* a row fetch at most once.
C27_TwoRunsOneFetch ==
    [][\A name \in NodeTasks :
          /\ gulp'.fetches[name] # gulp.fetches[name] => gulp.nodePath[name] = "missing"
          /\ (gulp'.runs[name] # gulp.runs[name] /\ gulp.nodePath[name] # "missing")
                 => /\ gulp'.fetches[name] = gulp.fetches[name]
                    /\ gulp'.nodePath[name] = gulp.nodePath[name]
                    /\ gulp'.st[<<name>>] = "done"
          /\ gulp'.runs[name] <= 2 => gulp'.fetches[name] <= 1]_vars

\* C27 amended: a node task fetches the runtime only when its directory
\* does not exist; when the directory exists the task completes without
\* fetching and leaves the directory as it is; a run fetches at most once,
\* and a later run fetches again only when every fetch before it failed
\* without leaving the directory: the fetches are at most one more than
\* the fetches that left no directory, so two runs in a row fetch at most
\* once when the first fetch did not fail that way.
C27_FetchOnlyWhenMissing ==
    [][\A name \in NodeTasks :
          /\ gulp'.fetches[name] # gulp.fetches[name]
                 => /\ gulp.nodePath[name] = "missing"
                    /\ gulp'.fetches[name] = gulp.fetches[name] + 1
                    /\ gulp'.runs[name] = gulp.runs[name] + 1
          /\ (gulp'.runs[name] # gulp.runs[name] /\ gulp.nodePath[name] # "missing")
                 => /\ gulp'.fetches[name] = gulp.fetches[name]
                    /\ gulp'.nodePath[name] = gulp.nodePath[name]
                    /\ gulp'.st[<<name>>] = "done"
          /\ gulp'.fetches[name] <= gulp'.lost[name] + 1
          /\ gulp'.fetches[name] <= gulp'.runs[name]
          /\ (gulp'.runs[name] <= 2 /\ gulp'.lost[name] = 0) => gulp'.fetches[name] <= 1]_vars

C27_Witness ==
    \E name \in NodeTasks :
        /\ gulp.runs[name] = 2
        /\ gulp.fetches[name] = 1
        /\ gulp.lost[name] = 0
        /\ gulp.nodePath[name] = "written"
        /\ gulp.st[<<name>>] = "done"

====
